---- MODULE Spec2Model ----
(***************************************************************************)
(* Model of the habit tracker (src/app.py, src/models.py).                 *)
(*                                                                         *)
(* The program is a script that is run from top to bottom once per user    *)
(* interaction.  Each run works on the habits list, the daily and weekly   *)
(* log dictionaries and the completed_activities list, and runs the code   *)
(* of exactly one tab: Track Habits, Add Habits or Analytics.  One action  *)
(* of the model is one run of the script.                                  *)
(*                                                                         *)
(* A calendar day is the number of days since 2024-01-01 (a Monday).  A    *)
(* "%Y-%m-%d" string is the triple <<year, month, day>> and a "%Y-W%U"     *)
(* string is the pair <<year, week>>; both are computed from the day       *)
(* number the way strftime computes them.                                  *)
(*                                                                         *)
(* Spec is a session that starts with an empty store; SpecHistory is a     *)
(* session that starts from the store a tracking history has left; in      *)
(* both the GitHub API answers every request.  SpecOutage is a session in  *)
(* which the API can answer requests with an error status.                 *)
(***************************************************************************)
EXTENDS Integers, Sequences, FiniteSets, TLC

VARIABLES habits, daily_logs, weekly_logs, completed_activities,
          files, gists, api_ok, now, next_id, steps, last, stats

vars == <<habits, daily_logs, weekly_logs, completed_activities,
          files, gists, api_ok, now, next_id, steps, last, stats>>

-----------------------------------------------------------------------------
(* Bounds of the model.                                                    *)

\* first day of a session that starts with an empty store: 2024-12-28 (Sat)
FirstDay == 362
\* number of steps of such a session: runs of the script in which the user
\* adds, deletes or flips, and midnights
MaxSteps == 4
\* first day of a replayed tracking history: 2024-12-01 (Sun)
HistoryStart == 335
\* a replayed history covers HistoryStart .. HistoryStart + HistorySpan
HistorySpan == 31
\* a replayed run of checked days starts within this many days of HistoryStart
MaxRunOffset == 0
\* a later single checked day follows the run after a gap of at most this many days
MaxGap == 2

HabitNames == {"Run", "Review"}
HabitTypes == {"daily", "weekly"}

-----------------------------------------------------------------------------
(* Calendar: what datetime and strftime compute.                           *)

IsLeap(y) == (y % 4 = 0 /\ y % 100 # 0) \/ y % 400 = 0

DaysInYear(y) == IF IsLeap(y) THEN 366 ELSE 365

RECURSIVE YearFrom(_, _)
\* year of day n, counting from the first day of year y
YearFrom(y, n) == IF n < DaysInYear(y) THEN y ELSE YearFrom(y + 1, n - DaysInYear(y))

RECURSIVE YearStart(_)
\* day number of January 1st of year y (y >= 2024)
YearStart(y) == IF y = 2024 THEN 0 ELSE YearStart(y - 1) + DaysInYear(y - 1)

YearOf(n) == YearFrom(2024, n)

\* zero-based day of the year (tm_yday)
YDay(n) == n - YearStart(YearOf(n))

\* tm_wday: 0 is Sunday
WDaySun(n) == (n + 1) % 7

\* isoweekday: 1 is Monday, 7 is Sunday
IsoWeekday(n) == (n % 7) + 1

MonthLen(y, m) ==
    IF m = 2 THEN (IF IsLeap(y) THEN 29 ELSE 28)
    ELSE IF m \in {4, 6, 9, 11} THEN 30 ELSE 31

RECURSIVE MonthFrom(_, _, _)
\* <<month, day of month>> of the zero-based day r of year y, counting from month m
MonthFrom(y, m, r) ==
    IF r < MonthLen(y, m) THEN <<m, r + 1>> ELSE MonthFrom(y, m + 1, r - MonthLen(y, m))

\* the days of 2024 and 2025
Days == 0..730

\* strftime("%Y-%m-%d") of every day
DateStrings ==
    [n \in Days |-> LET y == YearOf(n)
                        md == MonthFrom(y, 1, YDay(n))
                    IN  <<y, md[1], md[2]>>]

\* strftime("%Y-%m-%d")
DateStr(n) == DateStrings[n]

RECURSIVE DaysBeforeMonth(_, _)
DaysBeforeMonth(y, m) == IF m = 1 THEN 0 ELSE DaysBeforeMonth(y, m - 1) + MonthLen(y, m - 1)

\* datetime.strptime(s, "%Y-%m-%d") of every date string of the two years
ParsedDates ==
    [s \in {DateStrings[n] : n \in Days} |->
        YearStart(s[1]) + DaysBeforeMonth(s[1], s[2]) + (s[3] - 1)]

\* datetime.strptime(s, "%Y-%m-%d")
ParseDate(s) == ParsedDates[s]

\* strftime("%U"): week of the year, Sunday first; days before the first Sunday are week 0
WeekU(n) == (YDay(n) + 7 - WDaySun(n)) \div 7

\* strftime("%Y-W%U") of every day
WeekStrings == [n \in Days |-> <<YearOf(n), WeekU(n)>>]

\* strftime("%Y-W%U")
WeekStr(n) == WeekStrings[n]

\* number of ISO weeks of year y
IsoWeeksInYear(y) ==
    LET jan1 == IsoWeekday(YearStart(y))
    IN  IF jan1 = 4 \/ (IsLeap(y) /\ jan1 = 3) THEN 53 ELSE 52

\* ISO 8601 <<year, week>> of day n (n at least 7)
IsoWeek(n) ==
    LET y == YearOf(n)
        w == (YDay(n) + 1 - IsoWeekday(n) + 10) \div 7
    IN  IF w < 1 THEN <<y - 1, IsoWeeksInYear(y - 1)>>
        ELSE IF w > IsoWeeksInYear(y) THEN <<y + 1, 1>>
        ELSE <<y, w>>

-----------------------------------------------------------------------------
(* Data model (src/models.py) and list helpers.                            *)

\* Habit(name, type) with the id and created_at attributes app.py attaches
Habit(id, name, type, created_at) ==
    [id |-> id, name |-> name, type |-> type, created_at |-> created_at]

\* HabitLog(habit, completed)
HabitLog(habit, completed) == [habit |-> habit, completed |-> completed]

\* the __eq__ the dataclass decorator generates for Habit: it compares the
\* declared fields, name and type; id and created_at are not fields
HabitEq(a, b) == a.name = b.name /\ a.type = b.type

\* index of the first element of list that list.remove(x) would remove, 0 if none
FirstEqual(list, x) ==
    LET hits == {i \in 1..Len(list) : HabitEq(list[i], x)}
    IN  IF hits = {} THEN 0 ELSE CHOOSE i \in hits : \A j \in hits : i <= j

\* list.remove(x): removes the first element that compares equal to x
ListRemove(list, x) ==
    LET k == FirstEqual(list, x)
    IN  IF k = 0 THEN list
        ELSE [i \in 1..(Len(list) - 1) |-> IF i < k THEN list[i] ELSE list[i + 1]]

\* index of the first log of the list for habit id, 0 if none
FirstLog(list, id) ==
    LET hits == {i \in 1..Len(list) : list[i].habit = id}
    IN  IF hits = {} THEN 0 ELSE CHOOSE i \in hits : \A j \in hits : i <= j

\* for log in list: if log.habit == id: log.completed = value; break
SetFirstLog(list, id, value) ==
    LET k == FirstLog(list, id)
    IN  IF k = 0 THEN list ELSE [list EXCEPT ![k].completed = value]

-----------------------------------------------------------------------------
(* Track Habits tab.                                                       *)

\* is_completed of the Track Habits tab: the loop has no break, so the last
\* log of the period for the habit decides
IsCompleted(logs, key, id) ==
    IF key \in DOMAIN logs
    THEN LET hits == {i \in 1..Len(logs[key]) : logs[key][i].habit = id}
         IN  IF hits = {} THEN FALSE
             ELSE logs[key][CHOOSE i \in hits : \A j \in hits : j <= i].completed
    ELSE FALSE

\* CheckBranch without the habit_exists test
CheckBranch_AlwaysAppends(logs, acts, key, id, today, type) ==
    LET logs1 == IF key \in DOMAIN logs THEN logs ELSE logs @@ (key :> <<>>)
    IN  [logs |-> [logs1 EXCEPT ![key] = Append(@, HabitLog(id, TRUE))],
         acts |-> Append(acts, [habit_id |-> id, date |-> today, type |-> type])]

\* the branch taken when the checkbox of habit id is checked; acts is
\* completed_activities, today the date string, type "daily" or "weekly"
CheckBranch(logs, acts, key, id, today, type) ==
    LET logs1 == IF key \in DOMAIN logs THEN logs ELSE logs @@ (key :> <<>>)
        habit_exists == FirstLog(logs1[key], id) # 0
    IN  IF habit_exists
        THEN [logs |-> [logs1 EXCEPT ![key] = SetFirstLog(@, id, TRUE)], acts |-> acts]
        ELSE [logs |-> [logs1 EXCEPT ![key] = Append(@, HabitLog(id, TRUE))],
              acts |-> Append(acts, [habit_id |-> id, date |-> today, type |-> type])]

\* UncheckBranch with the flag of the log left as it is
UncheckBranch_KeepsFlag(logs, acts, key, id, today, type) ==
    IF key \in DOMAIN logs
    THEN LET Keep(act) == ~(act.habit_id = id /\ act.date = today)
         IN  [logs |-> logs, acts |-> SelectSeq(acts, Keep)]
    ELSE [logs |-> logs, acts |-> acts]

\* the branch taken when the checkbox of habit id is not checked; SelectSeq
\* is the list comprehension that rebuilds completed_activities
UncheckBranch(logs, acts, key, id, today, type) ==
    IF key \in DOMAIN logs
    THEN LET Keep(act) ==
                 IF type = "daily"
                 THEN ~(act.habit_id = id /\ act.date = today)
                 ELSE ~(act.habit_id = id /\ act.date = today /\ act.type = "weekly")
         IN  [logs |-> [logs EXCEPT ![key] = SetFirstLog(@, id, FALSE)],
              acts |-> SelectSeq(acts, Keep)]
    ELSE [logs |-> logs, acts |-> acts]

RECURSIVE TrackLoop(_, _, _, _, _, _, _)
\* for habit in hs: one pass of the loop over the daily (or weekly) habits.
\* click is the id of the habit whose checkbox the user has flipped in this
\* run (0: none); every other checkbox shows its value, is_completed.
TrackLoop(hs, logs, acts, key, today, type, click) ==
    IF hs = <<>> THEN [logs |-> logs, acts |-> acts]
    ELSE LET id == Head(hs).id
             is_completed == IsCompleted(logs, key, id)
             checked == IF id = click THEN ~is_completed ELSE is_completed
             r == IF checked
                  THEN CheckBranch(logs, acts, key, id, today, type)
                  ELSE UncheckBranch(logs, acts, key, id, today, type)
         IN  TrackLoop(Tail(hs), r.logs, r.acts, key, today, type, click)

\* [habit for habit in habits if habit.type == type]
OfType(hs, type) == LET Keep(h) == h.type = type IN SelectSeq(hs, Keep)

\* one run of the Track Habits tab on day n
TrackRun(hs, dlogs, wlogs, acts, n, click) ==
    LET today == DateStr(n)
        current_week == WeekStr(n)
        d == TrackLoop(OfType(hs, "daily"), dlogs, acts, today, today, "daily", click)
        w == TrackLoop(OfType(hs, "weekly"), wlogs, d.acts, current_week, today, "weekly", click)
    IN  [daily_logs |-> d.logs, weekly_logs |-> w.logs, completed_activities |-> w.acts]

-----------------------------------------------------------------------------
(* Add Habits tab.                                                         *)

\* the form handler: "if submitted and habit_name" creates the habit with a
\* fresh uuid4 (id) and appends it; an empty name changes nothing
AddHabitForm(hs, id, habit_name, habit_type, n) ==
    IF habit_name # ""
    THEN Append(hs, Habit(id, habit_name, habit_type, DateStr(n)))
    ELSE hs

\* the Delete button next to habit: habits.remove(habit)
DeleteButton(hs, habit) == ListRemove(hs, habit)

-----------------------------------------------------------------------------
(* Analytics tab.                                                          *)

\* timedelta(days=28)
WindowDays == 28

RECURSIVE DateRangeLoop(_, _, _)
\* while current_date <= end_date: date_range.append(...); current_date += 1 day
DateRangeLoop(current_date, end_date, date_range) ==
    IF current_date <= end_date
    THEN DateRangeLoop(current_date + 1, end_date, Append(date_range, DateStr(current_date)))
    ELSE date_range

\* date_range of a run on day n
DateRange(n) == DateRangeLoop(n - WindowDays, n, <<>>)

RECURSIVE WeeksLoop(_, _)
\* for date in date_range: week = strptime(date).strftime("%Y-W%U");
\* if week not in weeks: weeks.append(week)
WeeksLoop(date_range, weeks) ==
    IF date_range = <<>> THEN weeks
    ELSE LET week == WeekStr(ParseDate(Head(date_range)))
         IN  WeeksLoop(Tail(date_range),
                       IF \E i \in 1..Len(weeks) : weeks[i] = week
                       THEN weeks ELSE Append(weeks, week))

Weeks(date_range) == WeeksLoop(date_range, <<>>)

\* PeriodCompleted without the test of the habit id
PeriodCompleted_AnyHabit(logs, key, id) ==
    /\ key \in DOMAIN logs
    /\ \E i \in 1..Len(logs[key]) : logs[key][i].completed

\* is_completed of the Analytics tab: some log of the period is for the
\* habit and is completed
PeriodCompleted(logs, key, id) ==
    /\ key \in DOMAIN logs
    /\ \E i \in 1..Len(logs[key]) : logs[key][i].habit = id /\ logs[key][i].completed

\* completion_data: one record per date (or week) of the range
CompletionData(logs, periods, id) ==
    [i \in 1..Len(periods) |->
        [period |-> periods[i], completed |-> PeriodCompleted(logs, periods[i], id)]]

RECURSIVE CompletedSum(_)
\* df["completed_int"].sum()
CompletedSum(completion_data) ==
    IF completion_data = <<>> THEN 0
    ELSE (IF Head(completion_data).completed THEN 1 ELSE 0) + CompletedSum(Tail(completion_data))

\* CompletionPercentage with the 28 days of the timedelta as the total
CompletionPercentage_FixedTotal(completed, total) ==
    IF total > 0 THEN [num |-> completed * 100, den |-> WindowDays]
    ELSE [num |-> 0, den |-> 1]

\* (completed / total) * 100 if total > 0 else 0, as the fraction num / den
CompletionPercentage(completed, total) ==
    IF total > 0 THEN [num |-> completed * 100, den |-> total]
    ELSE [num |-> 0, den |-> 1]

RECURSIVE CurrentStreakLoop_NoBreak(_, _)
\* CurrentStreakLoop without the break at the first incomplete entry
CurrentStreakLoop_NoBreak(completion_data, current_streak) ==
    IF completion_data = <<>> THEN current_streak
    ELSE CurrentStreakLoop_NoBreak(
             SubSeq(completion_data, 1, Len(completion_data) - 1),
             IF completion_data[Len(completion_data)].completed
             THEN current_streak + 1 ELSE current_streak)

RECURSIVE CurrentStreakLoop(_, _)
\* for entry in reversed(completion_data): count until the first incomplete entry
CurrentStreakLoop(completion_data, current_streak) ==
    IF completion_data = <<>> THEN current_streak
    ELSE IF completion_data[Len(completion_data)].completed
    THEN CurrentStreakLoop(SubSeq(completion_data, 1, Len(completion_data) - 1),
                           current_streak + 1)
    ELSE current_streak

CurrentStreak(completion_data) == CurrentStreakLoop(completion_data, 0)

RECURSIVE LongestStreakLoop_NoReset(_, _, _)
\* LongestStreakLoop without the reset of current at an incomplete entry
LongestStreakLoop_NoReset(completion_data, current, longest_streak) ==
    IF completion_data = <<>> THEN longest_streak
    ELSE IF Head(completion_data).completed
    THEN LongestStreakLoop_NoReset(Tail(completion_data), current + 1,
                                   IF current + 1 > longest_streak
                                   THEN current + 1 ELSE longest_streak)
    ELSE LongestStreakLoop_NoReset(Tail(completion_data), current, longest_streak)

RECURSIVE LongestStreakLoop_MaxFirst(_, _, _)
\* LongestStreakLoop with the max taken before current grows
LongestStreakLoop_MaxFirst(completion_data, current, longest_streak) ==
    IF completion_data = <<>> THEN longest_streak
    ELSE IF Head(completion_data).completed
    THEN LongestStreakLoop_MaxFirst(Tail(completion_data), current + 1,
                                    IF current > longest_streak
                                    THEN current ELSE longest_streak)
    ELSE LongestStreakLoop_MaxFirst(Tail(completion_data), 0, longest_streak)

RECURSIVE LongestStreakLoop(_, _, _)
\* for entry in completion_data: current grows or resets, longest_streak takes the max
LongestStreakLoop(completion_data, current, longest_streak) ==
    IF completion_data = <<>> THEN longest_streak
    ELSE IF Head(completion_data).completed
    THEN LongestStreakLoop(Tail(completion_data), current + 1,
                           IF current + 1 > longest_streak THEN current + 1 ELSE longest_streak)
    ELSE LongestStreakLoop(Tail(completion_data), 0, longest_streak)

LongestStreak(completion_data) == LongestStreakLoop(completion_data, 0, 0)

\* what the page shows when no analytics have been computed in this run
NoStats ==
    [shown |-> FALSE, id |-> 0, type |-> "", total |-> 0, completed |-> 0,
     percentage |-> [num |-> 0, den |-> 1], current_streak |-> 0, longest_streak |-> 0]

\* the metrics of the selected habit, computed by a run of the Analytics tab on day n
Analytics(hs, dlogs, wlogs, n, selected_habit_id) ==
    LET date_range == DateRange(n)
        matches == {i \in 1..Len(hs) : hs[i].id = selected_habit_id}
        selected_habit == hs[CHOOSE i \in matches : \A j \in matches : i <= j]
        is_daily == selected_habit.type = "daily"
        completion_data ==
            IF is_daily THEN CompletionData(dlogs, date_range, selected_habit_id)
            ELSE CompletionData(wlogs, Weeks(date_range), selected_habit_id)
        total == Len(completion_data)
        completed == CompletedSum(completion_data)
    IN  [shown |-> TRUE, id |-> selected_habit_id, type |-> selected_habit.type,
         total |-> total, completed |-> completed,
         percentage |-> CompletionPercentage(completed, total),
         current_streak |-> CurrentStreak(completion_data),
         longest_streak |-> LongestStreak(completion_data)]

-----------------------------------------------------------------------------
(* Persistence: model_to_dict, dict_to_model, save_data, load_data and the *)
(* GitHub Gist functions.                                                  *)
(*                                                                         *)
(* A JSON object is the sequence of its <<key, value>> pairs in the order  *)
(* they are written, a JSON array is a sequence.  A file is the document   *)
(* json.dump has written to it.  A gist is <<>> while                      *)
(* st.session_state.gist_ids holds no id for it, and <<content>> once a    *)
(* request has created it.                                                 *)

\* key in data, for a JSON object
HasKey(data, key) == \E i \in 1..Len(data) : data[i][1] = key

\* data[key] of a JSON object
Get(data, key) == data[CHOOSE i \in 1..Len(data) : data[i][1] = key][2]

\* model_to_dict of a Habit; every Habit the program holds has the id and
\* created_at attributes, so the hasattr defaults are not taken
ModelToDict_Habit(obj) ==
    <<<<"id", obj.id>>, <<"name", obj.name>>, <<"type", obj.type>>,
      <<"created_at", obj.created_at>>>>

\* model_to_dict of a HabitLog
ModelToDict_HabitLog(obj) == <<<<"habit", obj.habit>>, <<"completed", obj.completed>>>>

\* DictToModel_Habit with created_at taken from datetime.now() in every case
DictToModel_Habit_CreatedNow(data, uuid4, n) ==
    Habit(IF HasKey(data, "id") THEN Get(data, "id") ELSE uuid4,
          Get(data, "name"), Get(data, "type"), DateStr(n))

\* dict_to_model(data, Habit); uuid4 and n (the day of datetime.now()) give
\* the defaults of data.get
DictToModel_Habit(data, uuid4, n) ==
    Habit(IF HasKey(data, "id") THEN Get(data, "id") ELSE uuid4,
          Get(data, "name"), Get(data, "type"),
          IF HasKey(data, "created_at") THEN Get(data, "created_at") ELSE DateStr(n))

\* dict_to_model(data, HabitLog)
DictToModel_HabitLog(data) == HabitLog(Get(data, "habit"), Get(data, "completed"))

\* the order of time on the keys of a log dictionary (dates or weeks)
KeyLeq(k, l) ==
    \/ k[1] < l[1]
    \/ k[1] = l[1] /\ k[2] < l[2]
    \/ k[1] = l[1] /\ k[2] = l[2] /\ (Len(k) = 2 \/ k[3] <= l[3])

RECURSIVE KeysInOrder(_)
\* the keys of a dict in the order of data.items(): the order in which they
\* were inserted, which is the order of time
KeysInOrder(keys) ==
    IF keys = {} THEN <<>>
    ELSE LET k == CHOOSE k \in keys : \A l \in keys : KeyLeq(k, l)
         IN  <<k>> \o KeysInOrder(keys \ {k})

\* json.dump of one of the dicts of completed_activities
ActivityToJson(act) ==
    <<<<"habit_id", act.habit_id>>, <<"date", act.date>>, <<"type", act.type>>>>

\* json.load of one of the dicts of completed_activities
JsonToActivity(data) ==
    [habit_id |-> Get(data, "habit_id"), date |-> Get(data, "date"),
     type |-> Get(data, "type")]

\* serialized_data of save_data, as json.dump writes it; model_type names
\* what data holds: "Habit" (a list of Habit), "DailyHabitLog" or
\* "WeeklyHabitLog" (a dict of lists of HabitLog), "None" (a list of dicts)
Serialize(data, model_type) ==
    IF model_type = "Habit"
    THEN [i \in 1..Len(data) |-> ModelToDict_Habit(data[i])]
    ELSE IF model_type = "None"
    THEN [i \in 1..Len(data) |-> ActivityToJson(data[i])]
    ELSE LET keys == KeysInOrder(DOMAIN data)
         IN  [i \in 1..Len(keys) |->
                 <<keys[i], [j \in 1..Len(data[keys[i]]) |->
                                ModelToDict_HabitLog(data[keys[i]][j])]>>]

\* what load_data makes of the document data it has read
Deserialize(data, model_type, uuid4, n) ==
    IF model_type = "Habit"
    THEN [i \in 1..Len(data) |-> DictToModel_Habit(data[i], uuid4, n)]
    ELSE IF model_type = "None"
    THEN [i \in 1..Len(data) |-> JsonToActivity(data[i])]
    ELSE IF data = <<>> THEN <<>>
    ELSE [key \in {data[i][1] : i \in 1..Len(data)} |->
             LET value == Get(data, key)
             IN  [j \in 1..Len(value) |-> DictToModel_HabitLog(value[j])]]

\* get_gist_content: the content of the gist, or None (<<>>) when the
\* request is not answered with status 200
GetGistContent(gist, ok) == IF ok THEN gist ELSE <<>>

\* create_or_update_gist: the gist after the request; it holds the content
\* when the request is answered with status 200 or 201, and is left as it
\* was (the function returns None) otherwise
CreateOrUpdateGist(content, gist, ok) == IF ok THEN <<content>> ELSE gist

\* load_data: the gist first, if the session has a gist id and the content
\* is not None; the local file otherwise
LoadData(file, gist, ok, model_type, uuid4, n) ==
    LET gist_data == IF gist # <<>> THEN GetGistContent(gist, ok) ELSE <<>>
    IN  IF gist_data # <<>>
        THEN Deserialize(gist_data[1], model_type, uuid4, n)
        ELSE Deserialize(file, model_type, uuid4, n)

\* save_data: P is the pair of the files and the gists before the call, the
\* result the pair after it
SaveData(P, data, model_type, gist_key, ok) ==
    LET serialized_data == Serialize(data, model_type)
    IN  [files |-> [P.files EXCEPT ![gist_key] = serialized_data],
         gists |-> [P.gists EXCEPT ![gist_key] =
                                       CreateOrUpdateGist(serialized_data, @, ok)]]

\* the four load_data calls at the top of the script
LoadAll(F, G, ok, uuid4, n) ==
    [habits |-> LoadData(F.habits, G.habits, ok, "Habit", uuid4, n),
     daily_logs |-> LoadData(F.daily_logs, G.daily_logs, ok, "DailyHabitLog", uuid4, n),
     weekly_logs |-> LoadData(F.weekly_logs, G.weekly_logs, ok, "WeeklyHabitLog", uuid4, n),
     completed_activities |->
         LoadData(F.completed_activities, G.completed_activities, ok, "None", uuid4, n)]

\* the three save_data calls at the end of the Track Habits tab
SaveLogs(P, dlogs, wlogs, acts, ok) ==
    SaveData(SaveData(SaveData(P, dlogs, "DailyHabitLog", "daily_logs", ok),
                      wlogs, "WeeklyHabitLog", "weekly_logs", ok),
             acts, "None", "completed_activities", ok)

-----------------------------------------------------------------------------
(* State.                                                                  *)
(*   habits, daily_logs, weekly_logs, completed_activities: the data the   *)
(*     script loads at the start of a run and saves after a change, as the *)
(*     last run of the script has left them                                *)
(*   files: the documents in data/habits.json, data/daily_logs.json,       *)
(*     data/weekly_logs.json and data/completed_activities.json            *)
(*   gists: for each gist key, the gist the session has created            *)
(*   api_ok: the GitHub API answers requests with status 200 or 201        *)
(*   now: the day datetime.now() falls on                                  *)
(*   next_id: the next value uuid.uuid4() returns (every call is fresh)    *)
(*   steps: the number of steps so far: runs in which the user has added   *)
(*     a habit, clicked Delete or flipped a checkbox, midnights, and       *)
(*     changes of api_ok                                                   *)
(*   stats: the metrics on the page, present after a run of Analytics      *)
(*   last: the last user action that changed or may have changed the data  *)
(*     (op, the habit id, the day); n is 2 when the last two actions were  *)
(*     flips of the checkbox of one habit in one period, and 1 after       *)
(*     another flip; before is the value of the checkbox before the last   *)
(*     flip, orig its value before the last n flips; ids are the ids of    *)
(*     the habits before a Delete click; dup tells that the name submitted *)
(*     by an Add was the name of a habit of the list; failed tells that    *)
(*     the requests of the save_data calls of the action were answered     *)
(*     with an error                                                       *)

NoLast ==
    [op |-> "none", id |-> 0, day |-> 0, n |-> 0, before |-> FALSE, orig |-> FALSE,
     ids |-> {}, dup |-> FALSE, failed |-> FALSE]

\* the empty dict {}
EmptyDict == <<>>

Ids(hs) == {hs[i].id : i \in 1..Len(hs)}

Names(hs) == {hs[i].name : i \in 1..Len(hs)}

\* the key of the period of day n in the log dictionary of a habit of the type
PeriodKey(type, n) == IF type = "daily" THEN DateStr(n) ELSE WeekStr(n)

LogsOf(type, dlogs, wlogs) == IF type = "daily" THEN dlogs ELSE wlogs

\* the files load_data creates with the default data, before any gist exists
NoFiles ==
    [habits |-> <<>>, daily_logs |-> <<>>, weekly_logs |-> <<>>,
     completed_activities |-> <<>>]

\* st.session_state.gist_ids of a new session: every id is None
NoGists ==
    [habits |-> <<>>, daily_logs |-> <<>>, weekly_logs |-> <<>>,
     completed_activities |-> <<>>]

\* what the load_data calls of a run in the current state return
Loaded == LoadAll(files, gists, api_ok, next_id, now)

Init ==
    /\ habits = <<>>
    /\ daily_logs = EmptyDict
    /\ weekly_logs = EmptyDict
    /\ completed_activities = <<>>
    /\ files = NoFiles
    /\ gists = NoGists
    /\ api_ok = TRUE
    /\ now = FirstDay
    /\ next_id = 1
    /\ steps = 0
    /\ last = NoLast
    /\ stats = NoStats

\* a run of the Add Habits tab with the form submitted
AddHabit(habit_name, habit_type) ==
    /\ steps < MaxSteps
    /\ \E S \in {Loaded} :
       \E P \in {IF habit_name # ""
                 THEN SaveData([files |-> files, gists |-> gists],
                               AddHabitForm(S.habits, next_id, habit_name, habit_type, now),
                               "Habit", "habits", api_ok)
                 ELSE [files |-> files, gists |-> gists]} :
          /\ habits' = AddHabitForm(S.habits, next_id, habit_name, habit_type, now)
          /\ daily_logs' = S.daily_logs
          /\ weekly_logs' = S.weekly_logs
          /\ completed_activities' = S.completed_activities
          /\ files' = P.files
          /\ gists' = P.gists
          /\ IF habit_name # ""
             THEN /\ next_id' = next_id + 1
                  /\ steps' = steps + 1
                  /\ last' = [NoLast EXCEPT !.op = "add", !.id = next_id, !.day = now,
                                            !.dup = habit_name \in Names(S.habits),
                                            !.failed = ~api_ok]
             ELSE UNCHANGED <<next_id, steps, last>>
    /\ stats' = NoStats
    /\ UNCHANGED <<now, api_ok>>

\* a run of the Add Habits tab with the Delete button of habits[i] clicked;
\* the run handles the click if it shows a button with the key of that one
DeleteHabit(i) ==
    /\ i \in 1..Len(habits)
    /\ steps < MaxSteps
    /\ steps' = steps + 1
    /\ \E S \in {Loaded} :
       \E shown \in {{j \in 1..Len(S.habits) : S.habits[j].id = habits[i].id}} :
       \E P \in {IF shown = {} THEN [habits |-> S.habits, files |-> files, gists |-> gists]
                 ELSE [habits |-> DeleteButton(S.habits, S.habits[CHOOSE j \in shown : TRUE])]
                      @@ SaveData([files |-> files, gists |-> gists],
                                  DeleteButton(S.habits, S.habits[CHOOSE j \in shown : TRUE]),
                                  "Habit", "habits", api_ok)} :
          /\ habits' = P.habits
          /\ daily_logs' = S.daily_logs
          /\ weekly_logs' = S.weekly_logs
          /\ completed_activities' = S.completed_activities
          /\ files' = P.files
          /\ gists' = P.gists
          /\ last' = IF shown = {} THEN NoLast
                     ELSE [NoLast EXCEPT !.op = "delete", !.id = habits[i].id, !.day = now,
                                         !.ids = Ids(S.habits), !.failed = ~api_ok]
    /\ stats' = NoStats
    /\ UNCHANGED <<now, next_id, api_ok>>

\* a run of the Track Habits tab: click is the id of the habit whose checkbox
\* the user has flipped, 0 if the user has flipped none
TrackHabits(click) ==
    \E S \in {Loaded} :
    \E r \in {TrackRun(S.habits, S.daily_logs, S.weekly_logs, S.completed_activities,
                       now, click)} :
    \E P \in {SaveLogs([files |-> files, gists |-> gists],
                       r.daily_logs, r.weekly_logs, r.completed_activities, api_ok)} :
       /\ habits' = S.habits
       /\ daily_logs' = r.daily_logs
       /\ weekly_logs' = r.weekly_logs
       /\ completed_activities' = r.completed_activities
       /\ files' = P.files
       /\ gists' = P.gists

\* a run of the Track Habits tab with the checkbox of habits[i] flipped
ToggleHabit(i) ==
    /\ i \in 1..Len(habits)
    /\ steps < MaxSteps
    /\ steps' = steps + 1
    /\ TrackHabits(habits[i].id)
    /\ \E S \in {Loaded} :
          LET h == habits[i]
              key == PeriodKey(h.type, now)
              before == IsCompleted(LogsOf(h.type, S.daily_logs, S.weekly_logs), key, h.id)
              again == /\ last.op \in {"check", "uncheck"}
                       /\ last.id = h.id
                       /\ PeriodKey(h.type, last.day) = key
          IN  last' = IF h.id \notin Ids(S.habits) THEN NoLast
                      ELSE [NoLast EXCEPT !.op = IF before THEN "uncheck" ELSE "check",
                                          !.id = h.id, !.day = now,
                                          !.n = IF again THEN 2 ELSE 1,
                                          !.before = before,
                                          !.orig = IF again THEN last.before ELSE before,
                                          !.failed = ~api_ok]
    /\ stats' = NoStats
    /\ UNCHANGED <<now, next_id, api_ok>>

\* a run of the Track Habits tab in which the user flips no checkbox
ViewTrack ==
    /\ TrackHabits(0)
    /\ stats' = NoStats
    /\ UNCHANGED <<now, next_id, api_ok, steps, last>>

\* ViewAnalytics with the save_data calls of the Track Habits tab at its end
ViewAnalytics_Saves(id) ==
    /\ \E S \in {Loaded} :
       \E P \in {SaveLogs([files |-> files, gists |-> gists],
                          S.daily_logs, S.weekly_logs, S.completed_activities, api_ok)} :
          /\ S.habits # <<>>
          /\ id \in Ids(S.habits)
          /\ stats' = Analytics(S.habits, S.daily_logs, S.weekly_logs, now, id)
          /\ habits' = S.habits
          /\ daily_logs' = S.daily_logs
          /\ weekly_logs' = S.weekly_logs
          /\ completed_activities' = S.completed_activities
          /\ files' = P.files
          /\ gists' = P.gists
    /\ UNCHANGED <<api_ok, now, next_id, steps, last>>

\* a run of the Analytics tab with the habit of id selected
ViewAnalytics(id) ==
    /\ \E S \in {Loaded} :
          /\ S.habits # <<>>
          /\ id \in Ids(S.habits)
          /\ stats' = Analytics(S.habits, S.daily_logs, S.weekly_logs, now, id)
          /\ habits' = S.habits
          /\ daily_logs' = S.daily_logs
          /\ weekly_logs' = S.weekly_logs
          /\ completed_activities' = S.completed_activities
    /\ UNCHANGED <<files, gists, api_ok, now, next_id, steps, last>>

\* midnight passes
Tick(last_day) ==
    /\ now < last_day
    /\ now' = now + 1
    /\ steps' = steps + 1
    /\ stats' = NoStats
    /\ UNCHANGED <<habits, daily_logs, weekly_logs, completed_activities,
                   files, gists, api_ok, next_id, last>>

Next ==
    \/ \E habit_name \in HabitNames \cup {""}, habit_type \in HabitTypes :
          AddHabit(habit_name, habit_type)
    \/ \E i \in 1..Len(habits) : DeleteHabit(i)
    \/ \E i \in 1..Len(habits) : ToggleHabit(i)
    \/ ViewTrack
    \/ \E id \in 1..(next_id - 1) : ViewAnalytics(id)
    \/ steps < MaxSteps /\ Tick(FirstDay + MaxSteps)

Spec == Init /\ [][Next]_vars

-----------------------------------------------------------------------------
(* Sessions in which requests to the GitHub API can fail.                  *)

\* the API starts or stops answering requests with an error status
ApiChange ==
    /\ steps < MaxSteps
    /\ steps' = steps + 1
    /\ api_ok' = ~api_ok
    /\ UNCHANGED <<habits, daily_logs, weekly_logs, completed_activities,
                   files, gists, now, next_id, last, stats>>

NextOutage == Next \/ ApiChange

SpecOutage == Init /\ [][NextOutage]_vars

-----------------------------------------------------------------------------
(* Sessions that start from a tracking history.                            *)
(*                                                                         *)
(* The store holds what earlier sessions saved.  A history is replayed     *)
(* with the operations above: a daily habit (id 1) and a weekly habit      *)
(* (id 2) are added on day a; on every day of a .. b, and on day c if c is *)
(* not 0 (a day that follows b after a gap of 1 .. MaxGap days), the user  *)
(* checks each habit that the Track Habits tab shows unchecked; if undo,   *)
(* the user unchecks both again on day c.                                  *)

HistoryEnd == HistoryStart + HistorySpan

HistoryHabits(a) ==
    AddHabitForm(AddHabitForm(<<>>, 1, "Run", "daily", a), 2, "Review", "weekly", a)

RECURSIVE Script(_, _, _, _, _)
\* what the user does on the days d .. end: a sequence of steps; in a step
\* <<n, id, value>> the user, on day n, makes the checkbox of habit id show value
Script(d, end, b, c, undo) ==
    IF d > end THEN <<>>
    ELSE (IF d <= b \/ d = c THEN <<<<d, 1, TRUE>>, <<d, 2, TRUE>>>> ELSE <<>>)
         \o (IF d = c /\ undo THEN <<<<d, 1, FALSE>>, <<d, 2, FALSE>>>> ELSE <<>>)
         \o Script(d + 1, end, b, c, undo)

\* the store after a step: a run of the Track Habits tab in which the user
\* flips the checkbox, if it does not show the value yet
HistoryStep(S, hs, step) ==
    LET n == step[1]
        id == step[2]
        type == IF id = 1 THEN "daily" ELSE "weekly"
    IN  IF IsCompleted(LogsOf(type, S.daily_logs, S.weekly_logs), PeriodKey(type, n), id)
               = step[3]
        THEN S
        ELSE TrackRun(hs, S.daily_logs, S.weekly_logs, S.completed_activities, n, id)

RECURSIVE Replay(_, _, _, _)
\* the store after the steps i, i + 1, ... of the script (T is the store
\* after step i)
Replay(S, hs, script, i) ==
    IF i > Len(script) THEN S
    ELSE CHOOSE R \in {Replay(T, hs, script, i + 1) : T \in {HistoryStep(S, hs, script[i])}} :
             TRUE

InitHistory ==
    \E a \in HistoryStart..(HistoryStart + MaxRunOffset) :
    \E b \in a..HistoryEnd :
    \E c \in {0} \cup {d \in (b + 2)..(b + 1 + MaxGap) : d <= HistoryEnd} :
    \E undo \in {u \in BOOLEAN : u => c # 0} :
    \E script \in {Script(a, IF c = 0 THEN b ELSE c, b, c, undo)} :
    \E S \in {Replay([daily_logs |-> EmptyDict, weekly_logs |-> EmptyDict,
                      completed_activities |-> <<>>],
                     HistoryHabits(a), script, 1)} :
        /\ habits = HistoryHabits(a)
        /\ daily_logs = S.daily_logs
        /\ weekly_logs = S.weekly_logs
        /\ completed_activities = S.completed_activities
        /\ files = [habits |-> Serialize(HistoryHabits(a), "Habit"),
                    daily_logs |-> Serialize(S.daily_logs, "DailyHabitLog"),
                    weekly_logs |-> Serialize(S.weekly_logs, "WeeklyHabitLog"),
                    completed_activities |-> Serialize(S.completed_activities, "None")]
        /\ gists = NoGists
        /\ api_ok = TRUE
        /\ now = IF c = 0 THEN b ELSE c
        /\ next_id = 3
        /\ steps = 0
        /\ last = NoLast
        /\ stats = NoStats

NextHistory ==
    \/ \E id \in 1..(next_id - 1) : ViewAnalytics(id)
    \/ Tick(HistoryEnd)

SpecHistory == InitHistory /\ [][NextHistory]_vars

-----------------------------------------------------------------------------
(* Properties of the store: specification Spec.                            *)

\* the habit records of the list with the id
HabitsWithId(id) == {habits[i] : i \in {j \in 1..Len(habits) : habits[j].id = id}}

TypeOfId(id) == (CHOOSE h \in HabitsWithId(id) : TRUE).type

\* the ids that the HabitLog objects of a log dictionary refer to
LogIds(logs) == UNION {{logs[k][i].habit : i \in 1..Len(logs[k])} : k \in DOMAIN logs}

\* the ids that the completed_activities records refer to
ActivityIds == {completed_activities[i].habit_id : i \in 1..Len(completed_activities)}

\* C1: every entry of daily_logs and weekly_logs and every completed_activities
\* record refers to the id of a habit of the habits list; in particular no
\* entry with the id of a deleted habit remains after the delete.
C1_LogsReferToHabits ==
    LogIds(daily_logs) \cup LogIds(weekly_logs) \cup ActivityIds \subseteq Ids(habits)

\* the value of the checkbox of habits[i] on day n after the user has
\* flipped it in two runs of the Track Habits tab, one after the other
AfterTwoFlips(i, n) ==
    LET h == habits[i]
        r1 == TrackRun(habits, daily_logs, weekly_logs, completed_activities, n, h.id)
        r2 == TrackRun(habits, r1.daily_logs, r1.weekly_logs, r1.completed_activities,
                       n, h.id)
    IN  IsCompleted(LogsOf(h.type, r2.daily_logs, r2.weekly_logs), PeriodKey(h.type, n), h.id)

\* C2: when the checkbox of one habit is flipped twice in a row in one
\* period, the completion state the Track Habits tab computes for the habit
\* in that period is the one it had before the two flips: for the two flips
\* the user has just made, and for two flips made in the current state.
C2_DoubleToggleRestores ==
    /\ last.n = 2 =>
          /\ HabitsWithId(last.id) # {}
          /\ IsCompleted(LogsOf(TypeOfId(last.id), daily_logs, weekly_logs),
                         PeriodKey(TypeOfId(last.id), last.day), last.id) = last.orig
    /\ \A i \in 1..Len(habits) :
          AfterTwoFlips(i, now)
              = IsCompleted(LogsOf(habits[i].type, daily_logs, weekly_logs),
                            PeriodKey(habits[i].type, now), habits[i].id)

\* a habit has been checked and then unchecked
C2_Witness == last.n = 2 /\ last.op = "uncheck" /\ last.orig = FALSE

\* C3: a click on the Delete button of a habit removes exactly the habit with
\* the id clicked and leaves every other habit of the list.
C3_DeleteRemovesClicked ==
    last.op = "delete" => Ids(habits) = last.ids \ {last.id}

\* C4: a habit whose name is the name of a habit of the list is not added, so
\* the names of the habits of the list are pairwise different.
C4_NamesUnique ==
    /\ last.op = "add" /\ last.dup => last.id \notin Ids(habits)
    /\ \A i, j \in 1..Len(habits) : habits[i].name = habits[j].name => i = j

\* C5: after a weekly habit is checked on day d, and until it is toggled
\* again, it is shown completed on exactly the dates of the ISO week of d.
C5_WeeklyCheckCoversIsoWeek ==
    (last.op = "check" /\ HabitsWithId(last.id) # {} /\ TypeOfId(last.id) = "weekly") =>
        \A d \in FirstDay..(FirstDay + MaxSteps) :
            IsCompleted(weekly_logs, WeekStr(d), last.id) <=> IsoWeek(d) = IsoWeek(last.day)

-----------------------------------------------------------------------------
(* Properties of the metrics of the Analytics tab.                         *)

\* the log dictionary of the habits of the type marks the habit completed
\* in the period of the key
MarkedCompleted(type, key, id) ==
    LET logs == LogsOf(type, daily_logs, weekly_logs)
    IN  /\ key \in DOMAIN logs
        /\ HabitLog(id, TRUE) \in {logs[key][i] : i \in 1..Len(logs[key])}

\* the periods of the days from .. to, oldest first: the dates for a daily
\* habit, the weeks (as the weekly log names them) for a weekly habit
PeriodsOf(type, from, to) ==
    IF type = "daily" THEN [i \in 1..(to - from + 1) |-> DateStr(from + i - 1)]
    ELSE LET keys == {WeekStr(d) : d \in from..to}
             Start(k) == CHOOSE d \in from..to :
                             /\ WeekStr(d) = k
                             /\ \A e \in from..to : WeekStr(e) = k => d <= e
         IN  [i \in 1..Cardinality(keys) |->
                 CHOOSE k \in keys :
                     Cardinality({k2 \in keys : Start(k2) < Start(k)}) = i - 1]

\* for each period of the days from .. to, whether the habit is marked completed
Marks(type, id, from, to) ==
    LET periods == PeriodsOf(type, from, to)
    IN  [i \in 1..Len(periods) |-> MarkedCompleted(type, periods[i], id)]

\* length of the run of completed periods that ends at period j
RunEndingAt(marks, j) ==
    LET stops == {k \in 0..j : k = 0 \/ ~marks[k]}
    IN  j - (CHOOSE k \in stops : \A l \in stops : l <= k)

\* the maximum length of a run of consecutive completed periods
MaxRun(marks) ==
    LET lengths == {RunEndingAt(marks, j) : j \in 1..Len(marks)} \cup {0}
    IN  CHOOSE n \in lengths : \A m \in lengths : m <= n

\* the number of consecutive completed periods at the end
TrailingRun(marks) == IF Len(marks) = 0 THEN 0 ELSE RunEndingAt(marks, Len(marks))

\* C6 (as stated): the longest streak is the maximum run of consecutive
\* completed periods over the entire log history of the habit.
C6_LongestOverHistory ==
    stats.shown =>
        stats.longest_streak = MaxRun(Marks(stats.type, stats.id, HistoryStart, now))

\* C6 (amended): the longest streak is the maximum run of consecutive
\* completed periods among the periods of the date range of the Analytics
\* tab, the WindowDays + 1 dates that end today.
C6_LongestOverDateRange ==
    stats.shown =>
        stats.longest_streak = MaxRun(Marks(stats.type, stats.id, now - WindowDays, now))

\* completions on days 1, 2, 3 and 5, seen on day 5
C6_Witness ==
    /\ stats.shown /\ stats.type = "daily" /\ stats.longest_streak = 3
    /\ now = HistoryStart + 4
    /\ \A d \in HistoryStart..now :
           MarkedCompleted("daily", DateStr(d), stats.id) <=> d # HistoryStart + 3

\* C7 (as stated): the current streak is the number of consecutive most
\* recent periods, ending at today or this week, that are marked completed,
\* and 0 when today or this week is not completed.
C7_CurrentOverHistory ==
    stats.shown =>
        /\ stats.current_streak = TrailingRun(Marks(stats.type, stats.id, HistoryStart, now))
        /\ ~MarkedCompleted(stats.type, PeriodKey(stats.type, now), stats.id)
               => stats.current_streak = 0

\* C7 (amended): the current streak is the number of consecutive most recent
\* periods of the date range of the Analytics tab, ending at today or this
\* week, that are marked completed, and 0 when today or this week is not
\* completed.
C7_CurrentOverDateRange ==
    stats.shown =>
        /\ stats.current_streak
               = TrailingRun(Marks(stats.type, stats.id, now - WindowDays, now))
        /\ ~MarkedCompleted(stats.type, PeriodKey(stats.type, now), stats.id)
               => stats.current_streak = 0

\* a daily habit completed on more days in a row than the date range holds
C7_Witness ==
    /\ stats.shown /\ stats.type = "daily" /\ stats.current_streak = WindowDays + 1
    /\ MarkedCompleted("daily", DateStr(now - WindowDays - 1), stats.id)

\* C8: the longest streak shown is at least the current streak shown.
C8_LongestAtLeastCurrent ==
    stats.shown => stats.longest_streak >= stats.current_streak

\* a weekly habit with a current streak of several weeks
C8_Witness ==
    stats.shown /\ stats.type = "weekly" /\ stats.current_streak >= 2

\* C9: the completion percentage is completed periods / total periods * 100,
\* lies in 0 .. 100, and is 0 when there are no periods.
C9_PercentageInRange ==
    /\ CompletionPercentage(0, 0).num = 0
    /\ stats.shown =>
          LET marks == Marks(stats.type, stats.id, now - WindowDays, now)
          IN  /\ stats.percentage.den > 0
              /\ 0 <= stats.percentage.num
              /\ stats.percentage.num <= 100 * stats.percentage.den
              /\ stats.percentage.num * stats.total
                     = 100 * stats.completed * stats.percentage.den
              /\ stats.total = Len(marks)
              /\ stats.completed = Cardinality({i \in 1..Len(marks) : marks[i]})

\* every date of the range completed: 100 percent
C9_Witness ==
    stats.shown /\ stats.type = "daily" /\ stats.completed = stats.total /\ stats.total > 0

\* the habit has no entry in any log
NoEntries(id) == id \notin LogIds(daily_logs) \cup LogIds(weekly_logs) \cup ActivityIds

\* C10: for a habit without any log entry the Analytics tab shows current
\* streak 0, longest streak 0 and completion percentage 0, and computes the
\* percentage without dividing by zero.
C10_NoEntriesAllZero ==
    (stats.shown /\ NoEntries(stats.id)) =>
        /\ stats.current_streak = 0
        /\ stats.longest_streak = 0
        /\ stats.percentage.num = 0
        /\ stats.percentage.den > 0
        /\ stats.total > 0

\* the metrics of a habit without entries, while another habit is completed today
C10_Witness ==
    /\ stats.shown /\ NoEntries(stats.id)
    /\ \E i \in 1..Len(habits) :
           MarkedCompleted(habits[i].type, PeriodKey(habits[i].type, now), habits[i].id)

-----------------------------------------------------------------------------
(* Properties of persistence and of the Track Habits and Analytics runs.   *)

\* the data the last run of the script has left
Store ==
    [habits |-> habits, daily_logs |-> daily_logs, weekly_logs |-> weekly_logs,
     completed_activities |-> completed_activities]

\* C11: when a habit has been added or deleted or a completion toggled, and
\* the requests of the save that follows have failed, the change is not
\* rolled back: the load_data calls of a later run of the script return the
\* habits and logs the change has left.
C11_FailedSaveKeepsMutation ==
    (last.op \in {"add", "delete", "check", "uncheck"} /\ last.failed) => Loaded = Store

\* no two entries of one key of the log dictionary have the same habit id
OneEntryPerHabit(logs) ==
    \A k \in DOMAIN logs : \A i, j \in 1..Len(logs[k]) :
        logs[k][i].habit = logs[k][j].habit => i = j

\* C12: for each date the daily log holds at most one entry per habit id, and
\* for each week key the weekly log holds at most one entry per habit id,
\* whatever checks and unchecks were applied.
C12_OneEntryPerHabitAndPeriod ==
    OneEntryPerHabit(daily_logs) /\ OneEntryPerHabit(weekly_logs)

\* a habit has been checked, unchecked and checked again in one period
C12_Witness ==
    /\ last.op = "check" /\ last.n = 2 /\ last.orig
    /\ MarkedCompleted(TypeOfId(last.id), PeriodKey(TypeOfId(last.id), last.day), last.id)

\* C13: a run of the Analytics tab is read-only: it leaves the habits list,
\* daily_logs, weekly_logs and completed_activities as they were and saves
\* nothing, neither to the files nor to the gists.
C13_AnalyticsReadOnly ==
    [][stats'.shown =>
          UNCHANGED <<habits, daily_logs, weekly_logs, completed_activities,
                      files, gists>>]_vars

\* the metrics of a habit with a log entry, computed after the logs have been
\* saved to the files and the gists
C13_Witness ==
    /\ stats.shown /\ ~NoEntries(stats.id)
    /\ files.completed_activities # <<>>
    /\ gists.daily_logs # <<>>

\* completed_activities has a record for the habit in the period of the key:
\* a record of that date for a daily habit, a weekly record dated in that
\* week for a weekly habit
HasRecord(type, key, id) ==
    \E i \in 1..Len(completed_activities) :
        LET act == completed_activities[i]
        IN  /\ act.habit_id = id
            /\ IF type = "daily" THEN act.date = key
               ELSE act.type = "weekly" /\ WeekStr(ParseDate(act.date)) = key

\* C14: after any checks and unchecks, completed_activities has a record for
\* a habit and a period exactly when the log entry of the habit for that
\* period has completed = true.
C14_ActivitiesMirrorLogs ==
    \A i \in 1..Len(habits) : \A d \in FirstDay..now :
        LET h == habits[i]
            key == PeriodKey(h.type, d)
        IN  HasRecord(h.type, key, h.id) <=> MarkedCompleted(h.type, key, h.id)

\* C15: the date range of the Analytics tab is the last 4 weeks, exactly 28
\* consecutive dates that end today, so that "Days Tracked" of a daily habit
\* is 28.
C15_DateRangeIs28Days ==
    (stats.shown /\ stats.type = "daily") =>
        /\ stats.total = 28
        /\ Len(DateRange(now)) = 28
        /\ DateRange(now)[Len(DateRange(now))] = DateStr(now)

\* load_data of what save_data has written to the local file of the key,
\* with no gist: the session has no gist id and the request fails
RoundTrip(data, model_type, gist_key) ==
    LET P == SaveData([files |-> NoFiles, gists |-> NoGists], data, model_type,
                      gist_key, FALSE)
    IN  LoadData(P.files[gist_key], P.gists[gist_key], FALSE, model_type, next_id, now)

\* C16: load_data of what save_data has written to the local file returns
\* the habits with the same id, name, type and created_at in the same order,
\* and the log dictionaries (and completed_activities) with the same keys
\* and the same entries in the same order.
C16_SaveLoadRoundTrip ==
    /\ RoundTrip(habits, "Habit", "habits") = habits
    /\ RoundTrip(daily_logs, "DailyHabitLog", "daily_logs") = daily_logs
    /\ RoundTrip(weekly_logs, "WeeklyHabitLog", "weekly_logs") = weekly_logs
    /\ RoundTrip(completed_activities, "None", "completed_activities")
           = completed_activities

\* two habits, created on an earlier day, with entries under several keys of
\* both logs, one of them not completed
C16_Witness ==
    /\ Len(habits) = 2 /\ habits[1].created_at # DateStr(now)
    /\ Cardinality(DOMAIN daily_logs) >= 3
    /\ Cardinality(DOMAIN weekly_logs) >= 2
    /\ completed_activities # <<>>
    /\ \E k \in DOMAIN daily_logs : \E i \in 1..Len(daily_logs[k]) :
           ~daily_logs[k][i].completed

====
